---- MODULE Spec2Model ----
(***************************************************************************)
(* Address binding layer (bindings/ergo-lib-c-core/src/address.rs) and the *)
(* BoxId codec (ergotree-ir/src/chain/ergo_box/box_id.rs) of sigma-rust.   *)
(*                                                                         *)
(* The binding functions and BoxId are translated from their source.  The  *)
(* library they call (AddressEncoder, Address, EcPoint, Digest32, ErgoTree,*)
(* the pointer helpers and the Error type) is modelled from the written    *)
(* specification: sections 3, 4 and 6.                                     *)
(*                                                                         *)
(* Strings are sequences of one-character strings, byte strings are        *)
(* sequences of integers 0..255.                                           *)
(***************************************************************************)
EXTENDS Integers, Sequences, FiniteSets, TLC

\* ------------------------------------------------------------------ bounds
\* Number of objects that can be live on the heap at once.
MaxObjs == 2
\* Number of caller-owned locations an output pointer can point at.
NumSlots == 1
\* Number of bytes a writer may already hold / a reader may hold after a BoxId.
MaxPad == 1

\* ------------------------------------------------------------ result values
NoErr == "None"
Ok(v) == [ok |-> TRUE, val |-> v, err |-> NoErr]
Err(e, v) == [ok |-> FALSE, val |-> v, err |-> e]

\* ------------------------------------------------------------ byte strings
Zeros(n) == [k \in 1..n |-> 0]
Take(s, n) == SubSeq(s, 1, n)
Drop(s, n) == SubSeq(s, n + 1, Len(s))

RECURSIVE CountLeading(_, _)
CountLeading(s, x) ==
    IF s # <<>> /\ Head(s) = x THEN 1 + CountLeading(Tail(s), x) ELSE 0

\* ------------------------------------------------------------------ base 58
Alphabet ==
    << "1","2","3","4","5","6","7","8","9",
       "A","B","C","D","E","F","G","H","J","K","L","M","N","P","Q","R","S",
       "T","U","V","W","X","Y","Z",
       "a","b","c","d","e","f","g","h","i","j","k","m","n","o","p","q","r",
       "s","t","u","v","w","x","y","z" >>

Base58Radix == 58
ByteRadix == 256
\* Three base-58 digits are handled per pass: 58^3.
ChunkDigits == 3
ChunkRadix == 195112

AlphabetIndex(c) == CHOOSE i \in 1..Len(Alphabet) : Alphabet[i] = c

\* The recursions below split their input in halves and finish the first
\* half before they enter the second (the test on the first half's result),
\* so that the evaluation depth is logarithmic in the length.

\* Long division of a big-endian byte string by ChunkRadix, entered with the
\* remainder of the bytes before it: quotient bytes and remainder.
RECURSIVE DivByChunk(_, _)
DivByChunk(bytes, rem) ==
    IF bytes = <<>> THEN [q |-> <<>>, r |-> rem]
    ELSE IF Len(bytes) = 1
    THEN [q |-> <<(rem * ByteRadix + bytes[1]) \div ChunkRadix>>,
          r |-> (rem * ByteRadix + bytes[1]) % ChunkRadix]
    ELSE LET h == Len(bytes) \div 2
             hi == DivByChunk(Take(bytes, h), rem)
         IN  IF hi.r < 0 THEN hi
             ELSE LET lo == DivByChunk(Drop(bytes, h), hi.r)
                  IN  [q |-> hi.q \o lo.q, r |-> lo.r]

ChunkToDigits(r) ==
    << r \div (Base58Radix * Base58Radix), (r \div Base58Radix) % Base58Radix, r % Base58Radix >>

\* One pass: the quotient without leading zero bytes replaces the number and
\* the remainder's digits go in front of the digits found so far.
DivStep(st) ==
    LET d == DivByChunk(st.num, 0)
    IN  [num |-> Drop(d.q, CountLeading(d.q, 0)), ds |-> ChunkToDigits(d.r) \o st.ds]

\* At most k passes, stopping when the number is exhausted.
RECURSIVE DivSteps(_, _)
DivSteps(st, k) ==
    IF k = 0 THEN st
    ELSE IF k = 1 THEN DivStep(st)
    ELSE LET half == DivSteps(st, k \div 2)
         IN  IF half.num = <<>> THEN half ELSE DivSteps(half, k - (k \div 2))

\* The base-58 digits (most significant first, possibly with leading zero
\* digits) of a byte string without leading zero bytes.  A pass removes more
\* than one byte's worth of the number, so Len(num) passes are enough.
ToDigits(num) == DivSteps([num |-> num, ds |-> <<>>], Len(num)).ds

\* Leading zero bytes become leading "1"s, the rest is the number in base 58.
base58_encode(bytes) ==
    LET z == CountLeading(bytes, 0)
        all == ToDigits(Drop(bytes, z))
        digits == Drop(all, CountLeading(all, 0))
    IN  [i \in 1..z |-> Alphabet[1]]
        \o [i \in 1..Len(digits) |-> Alphabet[digits[i] + 1]]

RECURSIVE BytesOf(_)
BytesOf(n) == IF n = 0 THEN <<>> ELSE BytesOf(n \div ByteRadix) \o <<n % ByteRadix>>

\* num * mult + carry on a big-endian byte string: the low bytes of the
\* product and the carry out of its most significant byte.
RECURSIVE MulAdd(_, _, _)
MulAdd(num, mult, carry) ==
    IF num = <<>> THEN [out |-> <<>>, carry |-> carry]
    ELSE IF Len(num) = 1
    THEN [out |-> <<(num[1] * mult + carry) % ByteRadix>>,
          carry |-> (num[1] * mult + carry) \div ByteRadix]
    ELSE LET h == Len(num) \div 2
             lo == MulAdd(Drop(num, h), mult, carry)
         IN  IF lo.carry < 0 THEN lo
             ELSE LET hi == MulAdd(Take(num, h), mult, lo.carry)
                  IN  [out |-> hi.out \o lo.out, carry |-> hi.carry]

RECURSIVE DigitsValue(_)
DigitsValue(ds) ==
    IF ds = <<>> THEN 0
    ELSE DigitsValue(Take(ds, Len(ds) - 1)) * Base58Radix + ds[Len(ds)]

\* num * 58^Len(ds) + the value of at most ChunkDigits digits.
MulStep(num, ds) ==
    LET m == MulAdd(num, Base58Radix ^ Len(ds), DigitsValue(ds))
    IN  BytesOf(m.carry) \o m.out

\* The digits folded into num, most significant first; the result has no
\* leading zero bytes.
RECURSIVE FromDigits(_, _)
FromDigits(ds, num) ==
    IF Len(ds) <= ChunkDigits THEN MulStep(num, ds)
    ELSE LET h == ChunkDigits * ((Len(ds) + ChunkDigits) \div (2 * ChunkDigits))
             front == FromDigits(Take(ds, h), num)
         IN  IF Len(front) < Len(num) THEN front
             ELSE FromDigits(Drop(ds, h), front)

\* Fails on a character outside the alphabet.
base58_decode(str) ==
    IF \E i \in 1..Len(str) : \A j \in 1..Len(Alphabet) : Alphabet[j] # str[i]
    THEN Err("Base58DecodingError", <<>>)
    ELSE LET z == CountLeading(str, Alphabet[1])
             ds == [i \in 1..(Len(str) - z) |-> AlphabetIndex(str[z + i]) - 1]
         IN  Ok(Zeros(z) \o FromDigits(ds, <<>>))

\* ----------------------------------------------------------------- checksum
CHECKSUM_LENGTH == 4
HashModulus == 65521

\* Stand-in for the protocol's cryptographic digest: a deterministic function
\* of the whole input, of which the first CHECKSUM_LENGTH bytes are kept.
RECURSIVE HashFold(_, _, _)
HashFold(bytes, seed, mult) ==
    IF bytes = <<>> THEN seed
    ELSE IF Len(bytes) = 1 THEN (seed * mult + bytes[1] + 1) % HashModulus
    ELSE LET h == Len(bytes) \div 2
             front == HashFold(Take(bytes, h), seed, mult)
         IN  IF front < 0 THEN front ELSE HashFold(Drop(bytes, h), front, mult)

checksum(bytes) ==
    LET h1 == HashFold(bytes, 1, 31)
        h2 == HashFold(bytes, 7, 257)
    IN  << h1 \div ByteRadix, h1 % ByteRadix, h2 \div ByteRadix, h2 % ByteRadix >>

\* ----------------------------------------------------------------- Digest32
Digest32_SIZE == 32

Digest32_zero == Zeros(Digest32_SIZE)

\* Raw fixed-length bytes appended to the writer, no framing.
Digest32_sigma_serialize(d, w) == Ok(w \o d)

\* Reads exactly SIZE bytes from the reader; fails on exhaustion.
\* A reader is [buf |-> bytes, pos |-> number of bytes already consumed].
Digest32_sigma_parse(r) ==
    IF Len(r.buf) - r.pos < Digest32_SIZE
    THEN [ok |-> FALSE, val |-> Digest32_zero, err |-> "ParseError", r |-> r]
    ELSE [ok |-> TRUE, val |-> SubSeq(r.buf, r.pos + 1, r.pos + Digest32_SIZE),
          err |-> NoErr, r |-> [r EXCEPT !.pos = r.pos + Digest32_SIZE]]

\* Base-16 text of a digest (Digest32 into String) and its inverse
\* (Digest32::try_from(String)): two lower-case digits per byte.
HexRadix == 16
HexDigits == << "0","1","2","3","4","5","6","7","8","9","a","b","c","d","e","f" >>
HexIndex(c) == CHOOSE i \in DOMAIN HexDigits : HexDigits[i] = c

Digest32_into_String(d) ==
    [k \in 1..(2 * Len(d)) |->
        IF k % 2 = 1 THEN HexDigits[(d[(k + 1) \div 2] \div HexRadix) + 1]
                     ELSE HexDigits[(d[k \div 2] % HexRadix) + 1]]

Digest32_try_from_String(value) ==
    IF \E k \in DOMAIN value : \A i \in DOMAIN HexDigits : HexDigits[i] # value[k]
    THEN Err("Digest32Error", <<>>)
    ELSE IF Len(value) # 2 * Digest32_SIZE
    THEN Err("Digest32Error", <<>>)
    ELSE Ok([k \in 1..Digest32_SIZE |->
                (HexIndex(value[2 * k - 1]) - 1) * HexRadix + (HexIndex(value[2 * k]) - 1)])

\* Digest32 into Vec<u8>
Digest32_into_Vec(d) == d

\* util::AsVecI8: each byte reinterpreted as a signed byte.
SignedRadix == 128
as_vec_i8(bytes) ==
    [k \in 1..Len(bytes) |->
        IF bytes[k] >= SignedRadix THEN bytes[k] - 2 * SignedRadix ELSE bytes[k]]

\* -------------------------------------------------------------------- BoxId
\* struct BoxId(Digest32): a one-field tuple; v[1] is the source's self.0
BoxId(digest) == << digest >>
NoBoxId == << >>

BoxId_SIZE == Digest32_SIZE

BoxId_zero == BoxId(Digest32_zero)

\* derive(PartialEq) on the newtype: equality of the wrapped digests
BoxId_eq(a, b) == a[1] = b[1]

BoxId_as_ref(v) == v[1]

BoxId_into_String(v) == Digest32_into_String(v[1])

BoxId_try_from(value) ==
    LET d == Digest32_try_from_String(value)
    IN  IF d.ok THEN Ok(BoxId(d.val)) ELSE Err(d.err, NoBoxId)

BoxId_into_Vec_i8(b) ==
    LET bytes == Digest32_into_Vec(b[1])
    IN  as_vec_i8(bytes)

\* A serializer that frames the digest with its length.
BoxId_sigma_serialize_framed(v, w) ==
    LET res == Digest32_sigma_serialize(v[1], w \o <<BoxId_SIZE>>)
    IN  IF res.ok THEN Ok(res.val) ELSE res

BoxId_sigma_serialize(v, w) ==
    LET res == Digest32_sigma_serialize(v[1], w)
    IN  IF res.ok THEN Ok(res.val) ELSE res

\* A parser that reads from the start of the buffer, not from the reader's
\* position.
BoxId_sigma_parse_rewound(r) ==
    LET d == Digest32_sigma_parse([r EXCEPT !.pos = 0])
    IN  IF d.ok THEN [d EXCEPT !.val = BoxId(d.val)]
                ELSE [d EXCEPT !.val = NoBoxId]

BoxId_sigma_parse(r) ==
    LET d == Digest32_sigma_parse(r)
    IN  IF d.ok THEN [d EXCEPT !.val = BoxId(d.val)]
                ELSE [d EXCEPT !.val = NoBoxId]

\* ------------------------------------------------------------------ EcPoint
\* The curve y^2 = x^3 + 7 of the proof system over a small prime field.
FieldP == 11
CurveB == 7
GROUP_SIZE == 33

Identity == [inf |-> TRUE, x |-> 0, y |-> 0]
Pt(x, y) == [inf |-> FALSE, x |-> x, y |-> y]
NoPoint == Pt(0, 0)

OnCurve(x, y) == (y * y) % FieldP = (x * x * x + CurveB) % FieldP

CurvePoints ==
    {Identity} \cup {Pt(c[1], c[2]) :
                       c \in {d \in (0..(FieldP - 1)) \X (0..(FieldP - 1)) : OnCurve(d[1], d[2])}}

\* Compressed form: sign byte 2 + (y mod 2), then x big-endian on 32 bytes;
\* the identity is GROUP_SIZE zero bytes.
EcPoint_sigma_serialize(p) ==
    IF p.inf THEN Zeros(GROUP_SIZE)
    ELSE <<2 + (p.y % 2)>> \o Zeros(GROUP_SIZE - 2) \o <<p.x>>

EcPoint_sigma_parse_bytes(bytes) ==
    IF Len(bytes) < GROUP_SIZE THEN Err("ParseError", NoPoint)
    ELSE IF bytes[1] = 0 THEN Ok(Identity)
    ELSE IF bytes[1] \notin {2, 3} THEN Err("ParseError", NoPoint)
    ELSE IF SubSeq(bytes, 2, GROUP_SIZE - 1) # Zeros(GROUP_SIZE - 2)
            \/ bytes[GROUP_SIZE] >= FieldP
         THEN Err("ParseError", NoPoint)
    ELSE LET x == bytes[GROUP_SIZE]
             ys == {y \in 0..(FieldP - 1) : OnCurve(x, y) /\ y % 2 = bytes[1] - 2}
         IN  IF ys = {} THEN Err("ParseError", NoPoint)
             ELSE Ok(Pt(x, CHOOSE y \in ys : TRUE))

\* ProveDlog wraps exactly one point; total constructor.
ProveDlog_new(point) == point

\* ----------------------------------------------------- spending script
\* A script is a header byte followed by the root statement.  The root is
\* one of: a discrete-log statement, the script-hash guard around a digest,
\* another parsable statement (kept as its bytes), or unparsable bytes.
TreeHeader == <<0>>
DlogPrefix == <<8, 205>>
P2SHPrefix == <<209, 147>>
P2SHSuffix == <<148>>
OtherOps == {209}

NoTree == [kind |-> "Err", pk |-> NoPoint, bytes |-> <<>>]

IsPrefix(p, s) == Len(s) >= Len(p) /\ Take(s, Len(p)) = p

ErgoTree_from_sigma_boolean(pk) == [kind |-> "Dlog", pk |-> pk, bytes |-> <<>>]
ErgoTree_p2sh_template(digest) == [kind |-> "P2SH", pk |-> NoPoint, bytes |-> digest]

ErgoTree_sigma_serialize_bytes(tree) ==
    TreeHeader \o
    CASE tree.kind = "Dlog" -> DlogPrefix \o EcPoint_sigma_serialize(tree.pk)
      [] tree.kind = "P2SH" -> P2SHPrefix \o tree.bytes \o P2SHSuffix
      [] OTHER -> tree.bytes

ParseRoot(body) ==
    IF IsPrefix(DlogPrefix, body) THEN
        LET p == EcPoint_sigma_parse_bytes(Drop(body, Len(DlogPrefix)))
        IN  IF p.ok /\ Len(body) = Len(DlogPrefix) + GROUP_SIZE
            THEN ErgoTree_from_sigma_boolean(p.val)
            ELSE [kind |-> "Err", pk |-> NoPoint, bytes |-> body]
    ELSE IF /\ IsPrefix(P2SHPrefix, body)
            /\ Len(body) = Len(P2SHPrefix) + Digest32_SIZE + Len(P2SHSuffix)
            /\ Drop(body, Len(P2SHPrefix) + Digest32_SIZE) = P2SHSuffix
         THEN ErgoTree_p2sh_template(SubSeq(body, Len(P2SHPrefix) + 1,
                                            Len(P2SHPrefix) + Digest32_SIZE))
    ELSE IF body # <<>> /\ body[1] \in OtherOps
         THEN [kind |-> "Other", pk |-> NoPoint, bytes |-> body]
    ELSE [kind |-> "Err", pk |-> NoPoint, bytes |-> body]

\* parse-from-bytes: fails on malformed input (no header, unknown header).
ErgoTree_sigma_parse_bytes(bytes) ==
    IF ~IsPrefix(TreeHeader, bytes) THEN Err("ParseError", NoTree)
    ELSE Ok(ParseRoot(Drop(bytes, Len(TreeHeader))))

\* ------------------------------------------------------------------ Address
P2Pk(pk) == [tag |-> "P2Pk", pk |-> pk, bytes |-> <<>>]
P2SH(digest) == [tag |-> "P2SH", pk |-> NoPoint, bytes |-> digest]
P2S(bytes) == [tag |-> "P2S", pk |-> NoPoint, bytes |-> bytes]
NoAddress == [tag |-> "None", pk |-> NoPoint, bytes |-> <<>>]

\* recreate_from_script
Address_recreate_from_ergo_tree(tree) ==
    CASE tree.kind = "Dlog" -> Ok(P2Pk(tree.pk))
      [] tree.kind = "P2SH" -> Ok(P2SH(tree.bytes))
      [] tree.kind = "Other" -> Ok(P2S(ErgoTree_sigma_serialize_bytes(tree)))
      [] OTHER -> Err("AddressError", NoAddress)

\* to_script
Address_script(address) ==
    CASE address.tag = "P2Pk" -> Ok(ErgoTree_from_sigma_boolean(ProveDlog_new(address.pk)))
      [] address.tag = "P2SH" -> Ok(ErgoTree_p2sh_template(address.bytes))
      [] OTHER -> ErgoTree_sigma_parse_bytes(address.bytes)

\* The library's enumerations; `as u8` gives their wire values.
addr_NetworkPrefixes == {"addr::Mainnet", "addr::Testnet"}
addr_AddressTypePrefixes == {"addr::P2Pk", "addr::Pay2Sh", "addr::Pay2S"}

addr_NetworkPrefix_u8(n) == IF n = "addr::Mainnet" THEN 0 ELSE 16

addr_AddressTypePrefix_u8(t) ==
    CASE t = "addr::P2Pk" -> 1 [] t = "addr::Pay2Sh" -> 2 [] t = "addr::Pay2S" -> 3

\* type_prefix: total, derived from the variant tag.
Address_address_type_prefix(address) ==
    CASE address.tag = "P2Pk" -> "addr::P2Pk"
      [] address.tag = "P2SH" -> "addr::Pay2Sh"
      [] address.tag = "P2S" -> "addr::Pay2S"

content_bytes(address) ==
    IF address.tag = "P2Pk" THEN EcPoint_sigma_serialize(address.pk) ELSE address.bytes

\* ------------------------------------------------------------ AddressEncoder
NetworkStride == 16

\* header || payload || checksum(header || payload), in base 58.
encode_address_as_string(network_prefix, address) ==
    LET header == addr_NetworkPrefix_u8(network_prefix)
                  + addr_AddressTypePrefix_u8(Address_address_type_prefix(address))
        bytes == <<header>> \o content_bytes(address)
    IN  base58_encode(bytes \o checksum(bytes))

\* The address a checksum-verified header and payload denote.
try_parse_address(header, payload) ==
    LET t == header % NetworkStride
    IN  IF t = addr_AddressTypePrefix_u8("addr::P2Pk") THEN
            LET p == EcPoint_sigma_parse_bytes(payload)
            IN  IF p.ok /\ Len(payload) = GROUP_SIZE THEN Ok(P2Pk(ProveDlog_new(p.val)))
                ELSE Err("ParseError", NoAddress)
        ELSE IF t = addr_AddressTypePrefix_u8("addr::Pay2Sh") THEN
            IF Len(payload) = Digest32_SIZE THEN Ok(P2SH(payload))
            ELSE Err("ParseError", NoAddress)
        ELSE IF t = addr_AddressTypePrefix_u8("addr::Pay2S") THEN Ok(P2S(payload))
        ELSE Err("InvalidAddressType", NoAddress)

\* Base-58 decoding and checksum verification shared by both parsers.
\* A string too short to hold header and checksum cannot verify its checksum.
decode_and_verify(str) ==
    LET d == base58_decode(str)
    IN  IF ~d.ok THEN d
        ELSE IF Len(d.val) < 1 + CHECKSUM_LENGTH THEN Err("InvalidChecksum", <<>>)
        ELSE LET body == Take(d.val, Len(d.val) - CHECKSUM_LENGTH)
             IN  IF checksum(body) # Drop(d.val, Len(body))
                 THEN Err("InvalidChecksum", <<>>)
                 ELSE Ok(body)

\* Unchecked parse: accepts either network's header.
unchecked_parse_address_from_str(str) ==
    LET b == decode_and_verify(str)
    IN  IF ~b.ok THEN Err(b.err, NoAddress)
        ELSE try_parse_address(Head(b.val), Tail(b.val))

\* Checked parse of the encoder bound to network_prefix: after the checksum,
\* rejects a header whose network component is not the encoder's.
parse_address_from_str(network_prefix, str) ==
    LET b == decode_and_verify(str)
    IN  IF ~b.ok THEN Err(b.err, NoAddress)
        ELSE IF Head(b.val) - (Head(b.val) % NetworkStride)
                # addr_NetworkPrefix_u8(network_prefix)
             THEN Err("InvalidNetwork", NoAddress)
        ELSE try_parse_address(Head(b.val), Tail(b.val))

\* ===================================================== binding layer
\* bindings/ergo-lib-c-core/src/address.rs

NULL == 0

\* #[repr(u8)] enum NetworkPrefix
NetworkPrefixes == {"Mainnet", "Testnet"}
NetworkPrefix_u8(v) == CASE v = "Mainnet" -> 0 [] v = "Testnet" -> 16

\* The conversion with its two arms exchanged.
addr_NetworkPrefix_from_swapped(v) ==
    CASE v = "Mainnet" -> "addr::Testnet"
      [] v = "Testnet" -> "addr::Mainnet"

\* impl From<NetworkPrefix> for addr::NetworkPrefix
addr_NetworkPrefix_from(v) ==
    CASE v = "Mainnet" -> "addr::Mainnet"
      [] v = "Testnet" -> "addr::Testnet"

\* impl From<addr::NetworkPrefix> for NetworkPrefix
NetworkPrefix_from(v) ==
    CASE v = "addr::Mainnet" -> "Mainnet"
      [] v = "addr::Testnet" -> "Testnet"

\* #[repr(u8)] enum AddressTypePrefix
AddressTypePrefixes == {"P2Pk", "Pay2Sh", "Pay2S"}
AddressTypePrefix_u8(v) == CASE v = "P2Pk" -> 1 [] v = "Pay2Sh" -> 2 [] v = "Pay2S" -> 3

\* impl From<AddressTypePrefix> for addr::AddressTypePrefix
addr_AddressTypePrefix_from(v) ==
    CASE v = "P2Pk" -> "addr::P2Pk"
      [] v = "Pay2Sh" -> "addr::Pay2Sh"
      [] v = "Pay2S" -> "addr::Pay2S"

\* impl From<addr::AddressTypePrefix> for AddressTypePrefix
AddressTypePrefix_from(v) ==
    CASE v = "addr::P2Pk" -> "P2Pk"
      [] v = "addr::Pay2Sh" -> "Pay2Sh"
      [] v = "addr::Pay2S" -> "Pay2S"

\* ---- crate::error, crate::util
NoError == [variant |-> "None", details |-> ""]
Error_misc(err) == [variant |-> "Misc", details |-> err]
Error_invalid_arg(name) == [variant |-> "InvalidArgument", details |-> name]

const_ptr_as_ref(ptr, name) ==
    IF ptr = NULL THEN Err(Error_invalid_arg(name), ptr) ELSE Ok(ptr)

mut_ptr_as_mut(ptr, name) ==
    IF ptr = NULL THEN Err(Error_invalid_arg(name), ptr) ELSE Ok(ptr)

\* ------------------------------------------------------------------- state
VARIABLES
    heap,     \* heap[p]: the object Box::new put at address p, if any
    slots,    \* caller-owned pointer locations; an output pointer points at one
    last,     \* the most recent call: function, arguments, outcome
    codec     \* BoxId codec run: value, writer, reader, parse result

vars == <<heap, slots, last, codec>>

Ptrs == 1..MaxObjs
Slots == 1..NumSlots

\* A cell the allocator may hand out: never allocated, or released.
FreeCell == [st |-> "free", kind |-> "None", addr |-> NoAddress, tree |-> NoTree, pk |-> FALSE]

\* Box::new(Address(address)).  pk records that the value came from
\* address_from_public_key.
AddressCell(address, pk) ==
    [st |-> "live", kind |-> "Address", addr |-> address, tree |-> NoTree, pk |-> pk]

\* Box::new(ErgoTree(tree)).  addr and pk record the Address it was made from.
ErgoTreeCell(tree, address, pk) ==
    [st |-> "live", kind |-> "ErgoTree", addr |-> address, tree |-> tree, pk |-> pk]

LiveAddress(p) == p \in Ptrs /\ heap[p].st = "live" /\ heap[p].kind = "Address"
LiveErgoTree(p) == p \in Ptrs /\ heap[p].st = "live" /\ heap[p].kind = "ErgoTree"

HasFree == \E p \in Ptrs : heap[p].st = "free"
FreePtr == CHOOSE p \in Ptrs :
               heap[p].st = "free" /\ \A q \in 1..(p - 1) : heap[q].st # "free"

\* Box::into_raw(Box::new(cell)): the heap after the allocation.
Box_into_raw(cell) == [heap EXCEPT ![FreePtr] = cell]

Call(op, ptr, out, net, input) ==
    [op |-> op, ptr |-> ptr, out |-> out, net |-> net, input |-> input,
     status |-> "Ok", error |-> NoError, ret |-> <<>>]

ReturnOk(call) == last' = call
ReturnVal(call, v) == last' = [call EXCEPT !.ret = v]
ReturnErr(call, e) == last' = [call EXCEPT !.status = "Err", !.error = e]
\* A write or read through a null pointer that the process does not survive.
Fault(call) == last' = [call EXCEPT !.status = "Fault"]

\* ------------------------------------------------------------------ inputs
\* Points of the curve: two for caller key buffers, one for address strings.
P1 == Pt(2, 9)
P2 == Pt(3, 10)
P3 == Pt(4, 4)
D1 == [k \in 1..Digest32_SIZE |-> k]
\* A script whose root is parsable but matches no template, one whose root
\* is unparsable, and bytes that are no script at all.
OtherScript == TreeHeader \o <<209, 1>>
ErrScript == TreeHeader \o <<1, 2>>
BadScript == <<9>>

\* The addresses the strings given to the decoders encode.
SampleAddresses ==
    {P2Pk(P3), P2SH(D1), P2S(OtherScript), P2S(ErrScript), P2S(BadScript)}

\* Caller buffers address_from_public_key may be pointed at: two valid
\* encodings, an x with no point, a short buffer.
KeyBufs ==
    << EcPoint_sigma_serialize(P1),
       EcPoint_sigma_serialize(P2),
       <<2>> \o Zeros(GROUP_SIZE - 1),
       Take(EcPoint_sigma_serialize(P1), GROUP_SIZE - 1) >>

\* std::slice::from_raw_parts(bytes_ptr, len): the buffer's bytes; through a
\* null pointer, whatever memory holds.
from_raw_parts(bytes_ptr, len) ==
    IF bytes_ptr # NULL THEN {Take(KeyBufs[bytes_ptr], len)}
    ELSE {Take(KeyBufs[b], len) : b \in {c \in DOMAIN KeyBufs : Len(KeyBufs[c]) >= len}}

\* The addresses address_from_public_key can make from the buffers.
KeyAddresses ==
    {P2Pk(ProveDlog_new(EcPoint_sigma_parse_bytes(KeyBufs[b]).val)) :
        b \in {c \in DOMAIN KeyBufs : EcPoint_sigma_parse_bytes(KeyBufs[c]).ok}}

\* The addresses the inputs can put on the heap.
KnownAddresses == SampleAddresses \cup KeyAddresses

ValidStrs ==
    {encode_address_as_string(n, a) : n \in addr_NetworkPrefixes, a \in SampleAddresses}

SomeStr == encode_address_as_string("addr::Mainnet", P2Pk(P3))
SomeBody == <<addr_NetworkPrefix_u8("addr::Testnet") + 2>> \o D1

\* A character outside the alphabet, a wrong checksum, a header whose type
\* is none of 1, 2, 3 under a right checksum, and a string cut by one character.
BadAlphabetStr == [SomeStr EXCEPT ![2] = "0"]
BadChecksumStr == base58_encode(SomeBody \o [checksum(SomeBody) EXCEPT ![1] = (@ + 1) % ByteRadix])
BadTypeStr == base58_encode(<<4>> \o D1 \o checksum(<<4>> \o D1))
TruncatedStr == Take(SomeStr, Len(SomeStr) - 1)

\* The strings given to the decoders.
InputStrs == ValidStrs \cup {BadAlphabetStr, BadChecksumStr, BadTypeStr, TruncatedStr}

\* The string codec evaluated once for the addresses and strings of the
\* model; any other argument is computed directly.
EncodedAddresses ==
    {<<n, a, encode_address_as_string(n, a)>> : n \in addr_NetworkPrefixes, a \in KnownAddresses}
KnownStrs == InputStrs \cup {e[3] : e \in EncodedAddresses}
ParsedInputs ==
    {<<n, s, parse_address_from_str(n, s)>> : n \in addr_NetworkPrefixes, s \in KnownStrs}
UncheckedParsedInputs ==
    {<<s, unchecked_parse_address_from_str(s)>> : s \in KnownStrs}

AddressEncoder_parse_address_from_str(network_prefix, str) ==
    IF str \in KnownStrs
    THEN (CHOOSE e \in ParsedInputs : e[1] = network_prefix /\ e[2] = str)[3]
    ELSE parse_address_from_str(network_prefix, str)

AddressEncoder_unchecked_parse_address_from_str(str) ==
    IF str \in KnownStrs
    THEN (CHOOSE e \in UncheckedParsedInputs : e[1] = str)[2]
    ELSE unchecked_parse_address_from_str(str)

AddressEncoder_encode_address_as_string(network_prefix, address) ==
    IF address \in KnownAddresses
    THEN (CHOOSE e \in EncodedAddresses : e[1] = network_prefix /\ e[2] = address)[3]
    ELSE encode_address_as_string(network_prefix, address)

\* -------------------------------------------------------------- operations
\* address_from_testnet with its encoder bound to the other network.
address_from_testnet_mainnet_encoder(address_str, address_out) ==
    LET call == Call("address_from_testnet", NULL, address_out, "None", address_str)
        out == mut_ptr_as_mut(address_out, "address_out")
    IN  IF ~out.ok
        THEN ReturnErr(call, out.err) /\ UNCHANGED <<heap, slots>>
        ELSE LET result == AddressEncoder_parse_address_from_str("addr::Mainnet", address_str)
             IN  IF result.ok
                 THEN /\ HasFree
                      /\ heap' = Box_into_raw(AddressCell(result.val, FALSE))
                      /\ slots' = [slots EXCEPT ![out.val] = FreePtr]
                      /\ ReturnOk(call)
                 ELSE /\ ReturnErr(call, Error_misc(result.err))
                      /\ UNCHANGED <<heap, slots>>

address_from_testnet(address_str, address_out) ==
    LET call == Call("address_from_testnet", NULL, address_out, "None", address_str)
        out == mut_ptr_as_mut(address_out, "address_out")
    IN  IF ~out.ok
        THEN ReturnErr(call, out.err) /\ UNCHANGED <<heap, slots>>
        ELSE LET result == AddressEncoder_parse_address_from_str("addr::Testnet", address_str)
             IN  IF result.ok
                 THEN /\ HasFree
                      /\ heap' = Box_into_raw(AddressCell(result.val, FALSE))
                      /\ slots' = [slots EXCEPT ![out.val] = FreePtr]
                      /\ ReturnOk(call)
                 ELSE /\ ReturnErr(call, Error_misc(result.err))
                      /\ UNCHANGED <<heap, slots>>

\* address_from_mainnet without the network check.
address_from_mainnet_unchecked(address_str, address_out) ==
    LET call == Call("address_from_mainnet", NULL, address_out, "None", address_str)
        out == mut_ptr_as_mut(address_out, "address_out")
    IN  IF ~out.ok
        THEN ReturnErr(call, out.err) /\ UNCHANGED <<heap, slots>>
        ELSE LET result == AddressEncoder_unchecked_parse_address_from_str(address_str)
             IN  IF result.ok
                 THEN /\ HasFree
                      /\ heap' = Box_into_raw(AddressCell(result.val, FALSE))
                      /\ slots' = [slots EXCEPT ![out.val] = FreePtr]
                      /\ ReturnOk(call)
                 ELSE /\ ReturnErr(call, Error_misc(result.err))
                      /\ UNCHANGED <<heap, slots>>

address_from_mainnet(address_str, address_out) ==
    LET call == Call("address_from_mainnet", NULL, address_out, "None", address_str)
        out == mut_ptr_as_mut(address_out, "address_out")
    IN  IF ~out.ok
        THEN ReturnErr(call, out.err) /\ UNCHANGED <<heap, slots>>
        ELSE LET result == AddressEncoder_parse_address_from_str("addr::Mainnet", address_str)
             IN  IF result.ok
                 THEN /\ HasFree
                      /\ heap' = Box_into_raw(AddressCell(result.val, FALSE))
                      /\ slots' = [slots EXCEPT ![out.val] = FreePtr]
                      /\ ReturnOk(call)
                 ELSE /\ ReturnErr(call, Error_misc(result.err))
                      /\ UNCHANGED <<heap, slots>>

address_from_base58(address_str, address_out) ==
    LET call == Call("address_from_base58", NULL, address_out, "None", address_str)
        out == mut_ptr_as_mut(address_out, "address_out")
    IN  IF ~out.ok
        THEN ReturnErr(call, out.err) /\ UNCHANGED <<heap, slots>>
        ELSE LET result == AddressEncoder_unchecked_parse_address_from_str(address_str)
             IN  IF result.ok
                 THEN /\ HasFree
                      /\ heap' = Box_into_raw(AddressCell(result.val, FALSE))
                      /\ slots' = [slots EXCEPT ![out.val] = FreePtr]
                      /\ ReturnOk(call)
                 ELSE /\ ReturnErr(call, Error_misc(result.err))
                      /\ UNCHANGED <<heap, slots>>

address_to_base58(address, network_prefix) ==
    LET call == Call("address_to_base58", address, NULL, network_prefix, <<>>)
        ref == const_ptr_as_ref(address, "address")
    IN  /\ UNCHANGED <<heap, slots>>
        /\ IF ~ref.ok THEN ReturnErr(call, ref.err)
           ELSE ReturnVal(call, AddressEncoder_encode_address_as_string(
                                    addr_NetworkPrefix_from(network_prefix),
                                    heap[ref.val].addr))

address_type_prefix(address) ==
    LET call == Call("address_type_prefix", address, NULL, "None", <<>>)
        ref == const_ptr_as_ref(address, "address")
    IN  /\ UNCHANGED <<heap, slots>>
        /\ IF ~ref.ok THEN ReturnErr(call, ref.err)
           ELSE ReturnVal(call, <<AddressTypePrefix_from(
                                      Address_address_type_prefix(heap[ref.val].addr))>>)

\* address_from_ergo_tree that wraps the serialized script instead of
\* recognising its template.
address_from_ergo_tree_as_script(ergo_tree_ptr, address_out) ==
    LET call == Call("address_from_ergo_tree", ergo_tree_ptr, address_out, "None", <<>>)
        ergo_tree == const_ptr_as_ref(ergo_tree_ptr, "ergo_tree_ptr")
    IN  IF ~ergo_tree.ok
        THEN ReturnErr(call, ergo_tree.err) /\ UNCHANGED <<heap, slots>>
        ELSE LET result == Ok(P2S(ErgoTree_sigma_serialize_bytes(heap[ergo_tree.val].tree)))
             IN  /\ HasFree
                 /\ heap' = Box_into_raw(AddressCell(result.val, FALSE))
                 /\ IF address_out # NULL
                    THEN /\ slots' = [slots EXCEPT ![address_out] = FreePtr]
                         /\ ReturnOk(call)
                    ELSE /\ UNCHANGED slots
                         /\ (Fault(call) \/ ReturnOk(call))

address_from_ergo_tree(ergo_tree_ptr, address_out) ==
    LET call == Call("address_from_ergo_tree", ergo_tree_ptr, address_out, "None", <<>>)
        ergo_tree == const_ptr_as_ref(ergo_tree_ptr, "ergo_tree_ptr")
    IN  IF ~ergo_tree.ok
        THEN ReturnErr(call, ergo_tree.err) /\ UNCHANGED <<heap, slots>>
        ELSE LET result == Address_recreate_from_ergo_tree(heap[ergo_tree.val].tree)
             IN  IF result.ok
                 THEN /\ HasFree
                      /\ heap' = Box_into_raw(AddressCell(result.val, FALSE))
                      /\ IF address_out # NULL
                         THEN /\ slots' = [slots EXCEPT ![address_out] = FreePtr]
                              /\ ReturnOk(call)
                         \* address_out is never checked: the store goes through
                         \* a null pointer, which is undefined behaviour.
                         ELSE /\ UNCHANGED slots
                              /\ (Fault(call) \/ ReturnOk(call))
                 ELSE /\ ReturnErr(call, Error_misc(result.err))
                      /\ UNCHANGED <<heap, slots>>

address_to_ergo_tree(address_ptr, ergo_tree_out) ==
    LET call == Call("address_to_ergo_tree", address_ptr, ergo_tree_out, "None", <<>>)
        address == const_ptr_as_ref(address_ptr, "address_ptr")
        out == mut_ptr_as_mut(ergo_tree_out, "ergo_tree_out")
    IN  IF ~address.ok
        THEN ReturnErr(call, address.err) /\ UNCHANGED <<heap, slots>>
        ELSE IF ~out.ok
        THEN ReturnErr(call, out.err) /\ UNCHANGED <<heap, slots>>
        ELSE LET ergo_tree == Address_script(heap[address.val].addr)
             IN  IF ~ergo_tree.ok
                 THEN /\ ReturnErr(call, Error_misc(ergo_tree.err))
                      /\ UNCHANGED <<heap, slots>>
                 ELSE /\ HasFree
                      /\ heap' = Box_into_raw(ErgoTreeCell(ergo_tree.val,
                                     heap[address.val].addr, heap[address.val].pk))
                      /\ slots' = [slots EXCEPT ![out.val] = FreePtr]
                      /\ ReturnOk(call)

address_from_public_key(bytes_ptr, len, address_out) ==
    LET call == Call("address_from_public_key", NULL, address_out, "None", <<bytes_ptr, len>>)
        out == mut_ptr_as_mut(address_out, "address_out")
    IN  IF ~out.ok
        THEN ReturnErr(call, out.err) /\ UNCHANGED <<heap, slots>>
        ELSE \* bytes_ptr is never checked: a slice over a null pointer is
             \* undefined behaviour; reading it faults or yields what is there.
             \/ /\ bytes_ptr = NULL
                /\ Fault(call)
                /\ UNCHANGED <<heap, slots>>
             \/ \E bytes \in from_raw_parts(bytes_ptr, len) :
                  LET point == EcPoint_sigma_parse_bytes(bytes)
                  IN  IF ~point.ok
                      THEN /\ ReturnErr(call, Error_misc(point.err))
                           /\ UNCHANGED <<heap, slots>>
                      ELSE /\ HasFree
                           /\ heap' = Box_into_raw(
                                  AddressCell(P2Pk(ProveDlog_new(point.val)), TRUE))
                           /\ slots' = [slots EXCEPT ![out.val] = FreePtr]
                           /\ ReturnOk(call)

\* address_delete that releases every object.
address_delete_all(address) ==
    LET call == Call("address_delete", address, NULL, "None", <<>>)
    IN  /\ IF address # NULL
           THEN heap' = [p \in Ptrs |-> FreeCell]
           ELSE UNCHANGED heap
        /\ UNCHANGED slots
        /\ ReturnOk(call)

address_delete(address) ==
    LET call == Call("address_delete", address, NULL, "None", <<>>)
    IN  /\ IF address # NULL
           THEN heap' = [heap EXCEPT ![address] = FreeCell]
           ELSE UNCHANGED heap
        /\ UNCHANGED slots
        /\ ReturnOk(call)

\* --------------------------------------------------------------- callers
\* Pointer arguments are null or point at a live object of the right type;
\* output arguments are null or point at a caller location.
AddressArgs == {NULL} \cup {p \in Ptrs : LiveAddress(p)}
ErgoTreeArgs == {NULL} \cup {p \in Ptrs : LiveErgoTree(p)}
OutArgs == {NULL} \cup Slots
BytesArgs == {<<NULL, 0>>, <<NULL, GROUP_SIZE>>} \cup {<<b, Len(KeyBufs[b])>> : b \in DOMAIN KeyBufs}

\* The caller is between calls: it has taken the previous call's result.
Idle == Call("idle", NULL, NULL, "None", <<>>)
Running == last = Idle

CallFromTestnet ==
    /\ Running /\ UNCHANGED codec
    /\ \E s \in InputStrs, o \in OutArgs : address_from_testnet(s, o)
CallFromMainnet ==
    /\ Running /\ UNCHANGED codec
    /\ \E s \in InputStrs, o \in OutArgs : address_from_mainnet(s, o)
CallFromBase58 ==
    /\ Running /\ UNCHANGED codec
    /\ \E s \in InputStrs, o \in OutArgs : address_from_base58(s, o)
CallToBase58 ==
    /\ Running /\ UNCHANGED codec
    /\ \E a \in AddressArgs, n \in NetworkPrefixes : address_to_base58(a, n)
CallTypePrefix ==
    /\ Running /\ UNCHANGED codec
    /\ \E a \in AddressArgs : address_type_prefix(a)
CallFromErgoTree ==
    /\ Running /\ UNCHANGED codec
    /\ \E t \in ErgoTreeArgs, o \in OutArgs : address_from_ergo_tree(t, o)
CallToErgoTree ==
    /\ Running /\ UNCHANGED codec
    /\ \E a \in AddressArgs, o \in OutArgs : address_to_ergo_tree(a, o)
CallFromPublicKey ==
    /\ Running /\ UNCHANGED codec
    /\ \E b \in BytesArgs, o \in OutArgs : address_from_public_key(b[1], b[2], o)
CallDelete ==
    /\ Running /\ UNCHANGED codec
    /\ \E a \in AddressArgs : address_delete(a)

\* The caller takes the result of a call that returned; a call that faulted
\* never returns.
TakeResult ==
    /\ last # Idle
    /\ last.status # "Fault"
    /\ last' = Idle
    /\ UNCHANGED <<heap, slots, codec>>

NoCodec == [pc |-> "off"]

Init ==
    /\ heap = [p \in Ptrs |-> FreeCell]
    /\ slots = [s \in Slots |-> NULL]
    /\ last = Idle
    /\ codec = NoCodec

Next ==
    \/ CallFromTestnet
    \/ CallFromMainnet
    \/ CallFromBase58
    \/ CallToBase58
    \/ CallTypePrefix
    \/ CallFromErgoTree
    \/ CallToErgoTree
    \/ CallFromPublicKey
    \/ CallDelete
    \/ TakeResult

Spec == Init /\ [][Next]_vars

\* ------------------------------------------------------------- BoxId codec
\* A program that makes a BoxId, converts it, writes it to a writer that may
\* already hold bytes, and parses it back from a reader that may hold more.
PadBytes == {0, 255}
RECURSIVE Pads(_)
Pads(n) == IF n = 0 THEN {<<>>} ELSE Pads(n - 1) \cup {p \o <<b>> : p \in Pads(n - 1), b \in PadBytes}

Digests ==
    {Digest32_zero, D1, [k \in 1..Digest32_SIZE |-> 255],
     Zeros(Digest32_SIZE - 1) \o <<1>>, <<128>> \o Zeros(Digest32_SIZE - 1)}

NoReader == [buf |-> <<>>, pos |-> 0]
NoResult == [ok |-> FALSE, val |-> NoBoxId, err |-> NoErr, r |-> NoReader]

CodecStart ==
    [pc |-> "start", v |-> NoBoxId, v2 |-> NoBoxId, eq |-> FALSE, text |-> <<>>,
     signed |-> <<>>, back |-> Err(NoErr, NoBoxId), pre |-> <<>>, w |-> <<>>,
     cut |-> FALSE, r |-> NoReader, res |-> NoResult]

\* BoxId::from(digest), by derive(From)
BoxIdFrom ==
    /\ codec.pc = "start"
    /\ \E d \in Digests, pre \in Pads(MaxPad) :
         codec' = [codec EXCEPT !.pc = "made", !.v = BoxId(d), !.pre = pre, !.w = pre]

BoxIdZero ==
    /\ codec.pc = "start"
    /\ \E pre \in Pads(MaxPad) :
         codec' = [codec EXCEPT !.pc = "made", !.v = BoxId_zero, !.pre = pre, !.w = pre]

\* v == other, for another BoxId
BoxIdEq ==
    /\ codec.pc = "made"
    /\ \E d \in Digests :
         codec' = [codec EXCEPT !.pc = "compared", !.v2 = BoxId(d),
                                !.eq = BoxId_eq(codec.v, BoxId(d))]

\* String::from(v), then BoxId::try_from of that text or of a shortened one
BoxIdString ==
    /\ codec.pc = "made"
    /\ \E drop \in 0..1 :
         LET text == BoxId_into_String(codec.v)
             given == Take(text, Len(text) - drop)
         IN  codec' = [codec EXCEPT !.pc = "texted", !.text = given,
                                    !.back = BoxId_try_from(given)]

\* Vec::<i8>::from(v)
BoxIdVecI8 ==
    /\ codec.pc = "made"
    /\ codec' = [codec EXCEPT !.pc = "signed", !.signed = BoxId_into_Vec_i8(codec.v)]

BoxIdSerialize ==
    /\ codec.pc = "made"
    /\ LET res == BoxId_sigma_serialize(codec.v, codec.w)
       IN  codec' = [codec EXCEPT !.pc = "written", !.w = res.val]

\* A reader positioned where the BoxId was written, over the written bytes
\* followed by more bytes, or over the written bytes with the last one lost.
OpenReader ==
    /\ codec.pc = "written"
    /\ \/ \E post \in Pads(MaxPad) :
            codec' = [codec EXCEPT !.pc = "loaded", !.cut = FALSE,
                                   !.r = [buf |-> codec.w \o post, pos |-> Len(codec.pre)]]
       \/ codec' = [codec EXCEPT !.pc = "loaded", !.cut = TRUE,
                                 !.r = [buf |-> Take(codec.w, Len(codec.w) - 1),
                                        pos |-> Len(codec.pre)]]

BoxIdParse ==
    /\ codec.pc = "loaded"
    /\ codec' = [codec EXCEPT !.pc = "parsed", !.res = BoxId_sigma_parse(codec.r)]

Restart ==
    /\ codec.pc \in {"compared", "texted", "signed", "parsed"}
    /\ codec' = CodecStart

InitBox ==
    /\ heap = [p \in Ptrs |-> FreeCell]
    /\ slots = [s \in Slots |-> NULL]
    /\ last = Idle
    /\ codec = CodecStart

NextBox ==
    \/ BoxIdFrom /\ UNCHANGED <<heap, slots, last>>
    \/ BoxIdZero /\ UNCHANGED <<heap, slots, last>>
    \/ BoxIdEq /\ UNCHANGED <<heap, slots, last>>
    \/ BoxIdString /\ UNCHANGED <<heap, slots, last>>
    \/ BoxIdVecI8 /\ UNCHANGED <<heap, slots, last>>
    \/ BoxIdSerialize /\ UNCHANGED <<heap, slots, last>>
    \/ OpenReader /\ UNCHANGED <<heap, slots, last>>
    \/ BoxIdParse /\ UNCHANGED <<heap, slots, last>>
    \/ Restart /\ UNCHANGED <<heap, slots, last>>

SpecBox == InitBox /\ [][NextBox]_vars

\* =============================================================== properties
\* Helpers of the properties below.

\* The string the library encoder gives for address a on the network the
\* binding calls n.
EncodedAs(n, a) ==
    AddressEncoder_encode_address_as_string(
        IF n = "Mainnet" THEN "addr::Mainnet" ELSE "addr::Testnet", a)

\* The checked decoder of network n.
CheckedDecoder(n) ==
    IF n = "Mainnet" THEN "address_from_mainnet" ELSE "address_from_testnet"

Decoders == {"address_from_testnet", "address_from_mainnet", "address_from_base58"}

\* The first byte a valid address string decodes to.
HeaderBytes == {<<e[3], Head(base58_decode(e[3]).val)>> : e \in EncodedAddresses}
HeaderByte(str) ==
    IF \E e \in HeaderBytes : e[1] = str THEN (CHOOSE e \in HeaderBytes : e[1] = str)[2]
    ELSE Head(base58_decode(str).val)

\* What the library decoder behind a binding decoder returns for a string.
LibraryDecode(op, str) ==
    IF op = "address_from_testnet"
    THEN AddressEncoder_parse_address_from_str("addr::Testnet", str)
    ELSE IF op = "address_from_mainnet"
    THEN AddressEncoder_parse_address_from_str("addr::Mainnet", str)
    ELSE AddressEncoder_unchecked_parse_address_from_str(str)

\* The call returned Ok and stored a live Address equal to a.
Produced(a) ==
    /\ last.status = "Ok"
    /\ last.out # NULL
    /\ LiveAddress(slots[last.out])
    /\ heap[slots[last.out]].addr = a

\* C1: address string round trip.  The string address_to_base58 returns for
\* a live Address a and network n is the library encoding of a for n, which
\* the library's checked parser of n turns back into a; and the checked
\* decoder of n (address_from_mainnet for Mainnet,
\* address_from_testnet for Testnet), called with that string and a usable
\* output pointer, returns Ok and stores an Address equal to a, for P2Pk, P2SH
\* and P2S addresses alike.
C1_RoundTrip ==
    /\ (last.op = "address_to_base58" /\ last.ptr # NULL) =>
          /\ last.status = "Ok"
          /\ last.ret = EncodedAs(last.net, heap[last.ptr].addr)
          /\ LibraryDecode(CheckedDecoder(last.net), last.ret) = Ok(heap[last.ptr].addr)
    /\ \A n \in NetworkPrefixes :
          (last.op = CheckedDecoder(n) /\ last.out # NULL) =>
              \A a \in KnownAddresses :
                  last.input = EncodedAs(n, a) => Produced(a)

C1_Witness ==
    /\ last.op = "address_from_testnet"
    /\ last.input = EncodedAs("Testnet", P2S(OtherScript))
    /\ Produced(P2S(OtherScript))

\* C2: network isolation.  address_from_mainnet returns an error for every
\* string encoded for Testnet, address_from_testnet returns an error for every
\* string encoded for Mainnet, and address_from_base58 accepts the strings of
\* both networks and stores an Address equal to the encoded one.
C2_NetworkIsolation ==
    /\ (last.op = "address_from_mainnet" /\ last.out # NULL) =>
          \A a \in KnownAddresses :
              last.input = EncodedAs("Testnet", a) => last.status = "Err"
    /\ (last.op = "address_from_testnet" /\ last.out # NULL) =>
          \A a \in KnownAddresses :
              last.input = EncodedAs("Mainnet", a) => last.status = "Err"
    /\ (last.op = "address_from_base58" /\ last.out # NULL) =>
          \A n \in NetworkPrefixes, a \in KnownAddresses :
              last.input = EncodedAs(n, a) => Produced(a)

C2_Witness ==
    /\ last.op = "address_from_mainnet"
    /\ last.out # NULL
    /\ last.input = EncodedAs("Testnet", P2SH(D1))
    /\ last.status = "Err"

C6_ScriptAddressEquivalence ==
    /\ (last.op = "address_from_public_key" /\ last.status = "Ok" /\ last.input[1] # NULL) =>
          /\ heap[slots[last.out]].pk
          /\ heap[slots[last.out]].addr.tag = "P2Pk"
          /\ EcPoint_sigma_serialize(heap[slots[last.out]].addr.pk)
                = Take(KeyBufs[last.input[1]], last.input[2])
    /\ (last.op = "address_to_ergo_tree" /\ last.ptr # NULL /\ last.out # NULL
          /\ heap[last.ptr].pk) =>
          /\ last.status = "Ok"
          /\ LiveErgoTree(slots[last.out])
          /\ heap[slots[last.out]].pk
          /\ heap[slots[last.out]].addr = heap[last.ptr].addr
    /\ (last.op = "address_from_ergo_tree" /\ last.ptr # NULL /\ last.out # NULL
          /\ heap[last.ptr].pk) =>
          /\ Produced(heap[last.ptr].addr)
          /\ heap[last.ptr].addr.tag = "P2Pk"

C6_Witness ==
    /\ last.op = "address_from_ergo_tree"
    /\ last.ptr # NULL
    /\ heap[last.ptr].pk
    /\ Produced(P2Pk(P1))

\* C7: the header byte is type prefix plus network offset.  The binding enums
\* have the wire values Mainnet = 0, Testnet = 16, P2Pk = 1, Pay2Sh = 2,
\* Pay2S = 3; the conversions between binding and library enums map each
\* variant to the same-named one in both directions and keep its value; the
\* string address_to_base58 returns decodes to a first byte equal to the
\* Address's type prefix plus the network's offset; address_type_prefix
\* returns the variant of the Address's type.
C7_HeaderByte ==
    /\ NetworkPrefix_u8("Mainnet") = 0 /\ NetworkPrefix_u8("Testnet") = 16
    /\ AddressTypePrefix_u8("P2Pk") = 1 /\ AddressTypePrefix_u8("Pay2Sh") = 2
    /\ AddressTypePrefix_u8("Pay2S") = 3
    /\ addr_NetworkPrefix_from("Mainnet") = "addr::Mainnet"
    /\ addr_NetworkPrefix_from("Testnet") = "addr::Testnet"
    /\ addr_AddressTypePrefix_from("P2Pk") = "addr::P2Pk"
    /\ addr_AddressTypePrefix_from("Pay2Sh") = "addr::Pay2Sh"
    /\ addr_AddressTypePrefix_from("Pay2S") = "addr::Pay2S"
    /\ \A n \in NetworkPrefixes :
          /\ NetworkPrefix_from(addr_NetworkPrefix_from(n)) = n
          /\ addr_NetworkPrefix_u8(addr_NetworkPrefix_from(n)) = NetworkPrefix_u8(n)
    /\ \A n \in addr_NetworkPrefixes :
          addr_NetworkPrefix_from(NetworkPrefix_from(n)) = n
    /\ \A t \in AddressTypePrefixes :
          /\ AddressTypePrefix_from(addr_AddressTypePrefix_from(t)) = t
          /\ addr_AddressTypePrefix_u8(addr_AddressTypePrefix_from(t)) = AddressTypePrefix_u8(t)
    /\ \A t \in addr_AddressTypePrefixes :
          addr_AddressTypePrefix_from(AddressTypePrefix_from(t)) = t
    /\ (last.op = "address_to_base58" /\ last.status = "Ok") =>
          HeaderByte(last.ret)
             = AddressTypePrefix_u8(
                   AddressTypePrefix_from(Address_address_type_prefix(heap[last.ptr].addr)))
               + NetworkPrefix_u8(last.net)
    /\ (last.op = "address_type_prefix" /\ last.status = "Ok") =>
          last.ret = << CASE heap[last.ptr].addr.tag = "P2Pk" -> "P2Pk"
                          [] heap[last.ptr].addr.tag = "P2SH" -> "Pay2Sh"
                          [] heap[last.ptr].addr.tag = "P2S" -> "Pay2S" >>

C7_Witness ==
    /\ last.op = "address_to_base58"
    /\ last.status = "Ok"
    /\ last.net = "Testnet"
    /\ heap[last.ptr].addr = P2Pk(P1)
    /\ HeaderByte(last.ret) = 17

\* The call just made had a null pointer among its pointer arguments.
NullArgument ==
    \/ /\ last.op \in {"address_to_base58", "address_type_prefix",
                       "address_from_ergo_tree", "address_to_ergo_tree"}
       /\ last.ptr = NULL
    \/ /\ last.op \in {"address_from_testnet", "address_from_mainnet",
                       "address_from_base58", "address_from_ergo_tree",
                       "address_to_ergo_tree", "address_from_public_key"}
       /\ last.out = NULL
    \/ /\ last.op = "address_from_public_key"
       /\ last.input[1] = NULL

\* C8: errors are values, never faults.  A call of an address operation with
\* a null pointer among its pointer arguments returns an Error: it neither
\* faults nor returns Ok.
C8_NullArgumentsGiveErrors ==
    NullArgument => last.status = "Err"

Producers ==
    {"address_from_testnet", "address_from_mainnet", "address_from_base58",
     "address_from_ergo_tree", "address_from_public_key", "address_to_ergo_tree"}

\* C9: no partial success.  A step of a producing operation that returns an
\* error changes neither the heap nor any caller location; one that returns
\* Ok allocates exactly one object and leaves the location behind its output
\* pointer pointing at it.
C9_NoPartialSuccess ==
    [][ (last'.op \in Producers /\ last' # last) =>
          /\ last'.status = "Err" => (heap' = heap /\ slots' = slots)
          /\ last'.status = "Ok" =>
                \E p \in Ptrs :
                    /\ heap[p].st = "free" /\ heap'[p].st = "live"
                    /\ \A q \in Ptrs \ {p} : heap'[q] = heap[q]
                    /\ last'.out # NULL
                    /\ slots'[last'.out] = p
                    /\ \A l \in Slots \ {last'.out} : slots'[l] = slots[l] ]_vars

Readers == {"address_to_base58", "address_type_prefix", "address_to_ergo_tree"}

C4_BoxIdRoundTrip ==
    /\ (codec.pc = "parsed" /\ ~codec.cut) =>
          /\ codec.res.ok
          /\ BoxId_eq(codec.res.val, codec.v)
          /\ BoxId_as_ref(codec.res.val) = BoxId_as_ref(codec.v)
    /\ codec.pc = "compared" =>
          (codec.eq <=> BoxId_as_ref(codec.v) = BoxId_as_ref(codec.v2))

C4_Witness ==
    /\ codec.pc = "parsed"
    /\ ~codec.cut
    /\ codec.pre # <<>>
    /\ codec.v = BoxId(D1)
    /\ codec.res.ok
    /\ codec.res.val = BoxId(D1)

\* C5: the BoxId wire format is its digest's.  BoxId::SIZE is Digest32::SIZE;
\* sigma_serialize appends exactly the SIZE digest bytes to the writer, with
\* no prefix or framing; sigma_parse consumes exactly SIZE bytes and fails on
\* fewer; BoxId::zero() is written as SIZE zero bytes, which parse back to
\* BoxId::zero().
C5_BoxIdWireFormat ==
    /\ BoxId_SIZE = Digest32_SIZE
    /\ codec.pc \in {"written", "loaded", "parsed"} =>
          /\ codec.w = codec.pre \o BoxId_as_ref(codec.v)
          /\ Len(codec.w) = Len(codec.pre) + BoxId_SIZE
          /\ codec.v = BoxId_zero => codec.w = codec.pre \o Zeros(BoxId_SIZE)
    /\ codec.pc = "parsed" =>
          /\ codec.res.ok <=> ~codec.cut
          /\ codec.res.ok => codec.res.r.pos = codec.r.pos + BoxId_SIZE
          /\ ~codec.res.ok => codec.res.r.pos = codec.r.pos
          /\ (codec.res.ok /\ SubSeq(codec.r.buf, codec.r.pos + 1, codec.r.pos + BoxId_SIZE)
                                 = Zeros(BoxId_SIZE)) =>
                codec.res.val = BoxId_zero

C5_Witness ==
    /\ codec.pc = "parsed"
    /\ codec.v = BoxId_zero
    /\ codec.w = codec.pre \o Zeros(BoxId_SIZE)
    /\ Len(codec.r.buf) > Len(codec.w)
    /\ codec.res.ok
    /\ codec.res.val = BoxId_zero

====
